---- MODULE Spec2Model ----
(***************************************************************************)
(* Steganographic image authentication: LSB embedding of a digital         *)
(* signature into the raw samples of an image, and the brute-force         *)
(* verification matcher that re-extracts and re-verifies it.               *)
(*                                                                         *)
(* Buffers are sequences of bytes (0..255); a zero-based offset p of the   *)
(* code is the index p + 1 of the sequence.  Bit strings are sequences of  *)
(* 0/1, hex strings are sequences of digits 0..15.                         *)
(***************************************************************************)
EXTENDS Integers, Sequences, FiniteSets, TLC

VARIABLES
  store,      \* rows of authenticated_images, in insertion order
  nextId,     \* next value of the serial primary key
  keysMade,   \* number of key pairs generated so far
  signed,     \* the valid (payload, signature, key) triples of the signature primitive
  logs,       \* rows of verification_logs
  request,    \* the last request handled (operation and input)
  result,     \* what that request returned
  call,       \* input of a direct call of one of the pure helpers
  out         \* what that call returned

vars == <<store, nextId, keysMade, signed, logs, request, result, call, out>>

sysVars == <<store, nextId, keysMade, signed, logs, request, result>>

(***************************************************************************)
(* Bounds of the model.                                                    *)
(***************************************************************************)
MaxBuf == 3          \* longest sample buffer in direct calls of the codec
MaxBits == 3         \* longest bit string in direct calls of the codec
MaxPosLen == 3       \* longest position sequence in direct calls of the codec
MaxPos == 3          \* largest offset in direct calls of the codec
MaxSamples == 2200   \* largest totalSamples in direct calls of generateEmbedPositions
MaxKeys == 1         \* key pairs generated in direct calls of the cryptography service
MaxSigned == 1       \* signatures made in direct calls of the cryptography service
MaxStore == 2        \* rows of the store in direct calls of verifyImage
MaxAuths == 2        \* authenticate requests that get as far as key generation
MaxLogs == 1         \* rows of verification_logs
MaxAttacks == 2      \* attack types in one call of runSimulations
MaxHexLen == 2       \* longest hex text in direct calls of signatureToBits
MaxHexBits == 9      \* longest bit string in direct calls of bitsToSignature

ByteVals == {1, 254}

\* An optional field of a result: absent, or present with a value.
Undefined == [def |-> FALSE]
Some(x) == [def |-> TRUE, v |-> x]

\* The number NaN.
NaN == -1

\* No direct call was made yet.
NoCall == [fn |-> "none"]
NoOut == [fn |-> "none"]

Min(a, b) == IF a < b THEN a ELSE b

RECURSIVE SeqsUpTo(_, _)
SeqsUpTo(S, n) ==
  IF n = 0 THEN {<<>>}
  ELSE LET shorter == SeqsUpTo(S, n - 1)
       IN  shorter \cup {Append(s, x) : s \in {t \in shorter : Len(t) = n - 1}, x \in S}

(***************************************************************************)
(* SteganographyService: positions, content hash, LSB codec.               *)
(***************************************************************************)
MAX_POSITIONS == 2048

\* Iterations lo .. hi-1 of the loop of generateEmbedPositions, entered with
\* i = lo; the loop leaves at the first i with i * step >= totalPixels.  The
\* range is split in halves to keep the evaluation depth logarithmic.
RECURSIVE positionsLoop(_, _, _, _)
positionsLoop(lo, hi, step, totalPixels) ==
  IF lo >= hi THEN <<>>
  ELSE IF hi = lo + 1
       THEN IF lo * step < totalPixels THEN <<lo * step>> ELSE <<>>
       ELSE LET mid == (lo + hi) \div 2
                left == positionsLoop(lo, mid, step, totalPixels)
            IN  IF Len(left) < mid - lo THEN left
                ELSE left \o positionsLoop(mid, hi, step, totalPixels)

\* The loop without its second condition i * step < totalPixels.
generateEmbedPositionsNoGuard(totalPixels) ==
  [i \in 1..MAX_POSITIONS |-> (i - 1) * (totalPixels \div MAX_POSITIONS)]

\* The step rounded up where the code rounds down.
generateEmbedPositionsCeilStep(totalPixels) ==
  LET step == (totalPixels + MAX_POSITIONS - 1) \div MAX_POSITIONS
  IN  positionsLoop(0, MAX_POSITIONS, step, totalPixels)

generateEmbedPositions(totalPixels) ==
  LET step == totalPixels \div MAX_POSITIONS
  IN  positionsLoop(0, MAX_POSITIONS, step, totalPixels)

\* createHash('sha256').update(d).digest('hex'): an ideal (collision-free) hash.
sha256(d) == <<"sha256", d>>

\* positions is iterable: every element is compared with the buffer length.
clearLSB(b) == b - (b % 2)

\* The hash of the buffer as it is, embedded bits included.
computeImageHashRaw(pixelData, embedPositions) == sha256(pixelData)

\* The least significant bit of every byte cleared, not only at the positions.
computeImageHashAllLSBsCleared(pixelData, embedPositions) ==
  sha256([p \in 1..Len(pixelData) |-> clearLSB(pixelData[p])])

computeImageHash(pixelData, embedPositions) ==
  LET cleared == {embedPositions[i] : i \in 1..Len(embedPositions)}
      modifiedData == [p \in 1..Len(pixelData) |->
                         IF (p - 1) \in cleared THEN clearLSB(pixelData[p])
                         ELSE pixelData[p]]
  IN  sha256(modifiedData)

\* The characters of a hex text.  In the services a hex string is held as
\* the sequence of the values of its digits; parseInt16 and toString16 are
\* the conversions between a character and that value.
HexChars == <<"0", "1", "2", "3", "4", "5", "6", "7", "8", "9",
              "a", "b", "c", "d", "e", "f">>
UpperHexChars == <<"A", "B", "C", "D", "E", "F">>

\* parseInt(char, 16) of a hex character: both cases are accepted.
parseInt16(char) ==
  IF \E v \in 1..16 : HexChars[v] = char
  THEN (CHOOSE v \in 1..16 : HexChars[v] = char) - 1
  ELSE (CHOOSE v \in 1..6 : UpperHexChars[v] = char) + 9

\* n.toString(16) of a value below 16: a lowercase character.
toString16(v) == HexChars[v + 1]

hexDigits(text) == [k \in 1..Len(text) |-> parseInt16(text[k])]
hexText(digits) == [k \in 1..Len(digits) |-> toString16(digits[k])]

\* The four bits of a digit with the least significant bit first.
hexToNibbleLsbFirst(d) == <<d % 2, (d \div 2) % 2, (d \div 4) % 2, d \div 8>>

\* parseInt(char, 16).toString(2).padStart(4, '0')
hexToNibble(d) == <<d \div 8, (d \div 4) % 2, (d \div 2) % 2, d % 2>>

\* n.toString(2): the binary digits without leading zeros.
toString2(d) ==
  IF d >= 8 THEN <<1, (d \div 4) % 2, (d \div 2) % 2, d % 2>>
  ELSE IF d >= 4 THEN <<1, (d \div 2) % 2, d % 2>>
  ELSE IF d >= 2 THEN <<1, d % 2>>
  ELSE <<d>>

\* signatureToBits without padStart(4, '0').
RECURSIVE signatureToBitsNoPad(_)
signatureToBitsNoPad(signature) ==
  IF Len(signature) = 0 THEN <<>>
  ELSE toString2(signature[1]) \o signatureToBitsNoPad(Tail(signature))

signatureToBits(signature) ==
  [k \in 1..(4 * Len(signature)) |->
     hexToNibble(signature[((k - 1) \div 4) + 1])[((k - 1) % 4) + 1]]

\* modifiedData[pos] | bit, without clearing the old bit first.
writeLSBNoClear(b, bit) == IF b % 2 = 1 THEN b ELSE b + bit

writeLSB(b, bit) == clearLSB(b) + bit

\* The loop of embedLSB without its second condition i < positions.length,
\* the bits beyond the positions going to the positions once more from the
\* first on.
embedLSBWrapAround(pixelData, bits, positions) ==
  LET posAt(i) == positions[((i - 1) % Len(positions)) + 1]
      count == IF Len(positions) = 0 THEN 0 ELSE Len(bits)
      last(pos) == CHOOSE i \in 1..count :
                     /\ posAt(i) = pos
                     /\ \A k \in (i + 1)..count : posAt(k) # pos
  IN  [p \in 1..Len(pixelData) |->
         IF \E i \in 1..count : posAt(i) = p - 1
         THEN pixelData[p] - (pixelData[p] % 2) + bits[last(p - 1)]
         ELSE pixelData[p]]

\* The loop of embedLSB running over every position, a position beyond the
\* bit string receiving the bit 0.
embedLSBZeroFill(pixelData, bits, positions) ==
  LET bitAt(i) == IF i <= Len(bits) THEN bits[i] ELSE 0
      written == {positions[i] : i \in 1..Len(positions)}
      last(pos) == CHOOSE i \in 1..Len(positions) :
                     /\ positions[i] = pos
                     /\ \A k \in (i + 1)..Len(positions) : positions[k] # pos
  IN  [p \in 1..Len(pixelData) |->
         IF (p - 1) \in written
         THEN pixelData[p] - (pixelData[p] % 2) + bitAt(last(p - 1))
         ELSE pixelData[p]]

\* The loop of embedLSB writes bits[i] to the offset positions[i], for i from
\* 0 to min(bits.length, positions.length) - 1, when the offset lies in the
\* buffer; a later write to an offset overwrites an earlier one.  So a byte
\* ends with the bit every write to its offset agrees on, or with the bit of
\* the last write when they disagree.
embedLSB(pixelData, bits, positions) ==
  LET count == Min(Len(bits), Len(positions))
      zeros == {positions[i] : i \in {k \in 1..count : bits[k] = 0}}
      ones == {positions[i] : i \in {k \in 1..count : bits[k] = 1}}
      last(pos) == CHOOSE i \in 1..count :
                     /\ positions[i] = pos
                     /\ \A k \in (i + 1)..count : positions[k] # pos
  IN  [p \in 1..Len(pixelData) |->
         IF (p - 1) \in ones
         THEN IF (p - 1) \in zeros
              THEN writeLSB(pixelData[p], bits[last(p - 1)])
              ELSE writeLSB(pixelData[p], 1)
         ELSE IF (p - 1) \in zeros
              THEN writeLSB(pixelData[p], 0)
              ELSE pixelData[p]]

\* One character per offset that lies in the buffer, in the order of the
\* positions; an offset at or beyond the buffer length adds none.
\* The loop without its test pos < pixelData.length: pixelData[pos] is
\* undefined beyond the buffer, and undefined & 1 is 0.
extractLSBNoGuard(pixelData, positions) ==
  LET length == Len(pixelData)
  IN  [i \in 1..Len(positions) |->
         IF positions[i] < length THEN pixelData[positions[i] + 1] % 2 ELSE 0]

extractLSB(pixelData, positions) ==
  LET length == Len(pixelData)
      inside == SelectSeq(positions, LAMBDA pos : pos < length)
  IN  [i \in 1..Len(inside) |-> pixelData[inside[i] + 1] % 2]

\* Each group of four bits read with the least significant bit first.
bitsToSignatureLsbFirst(bits) ==
  [k \in 1..(Len(bits) \div 4) |->
     bits[4 * k - 3] + 2 * bits[4 * k - 2] + 4 * bits[4 * k - 1] + 8 * bits[4 * k]]

\* A trailing chunk shorter than four bits read as a digit of its own.
bitsToSignaturePadTail(bits) ==
  LET bitAt(i) == IF i <= Len(bits) THEN bits[i] ELSE 0
  IN  [k \in 1..((Len(bits) + 3) \div 4) |->
         8 * bitAt(4 * k - 3) + 4 * bitAt(4 * k - 2) + 2 * bitAt(4 * k - 1) + bitAt(4 * k)]

bitsToSignature(bits) ==
  [k \in 1..(Len(bits) \div 4) |->
     8 * bits[4 * k - 3] + 4 * bits[4 * k - 2] + 2 * bits[4 * k - 1] + bits[4 * k]]

(***************************************************************************)
(* CryptographyService.  A call either returns a value or throws an Error; *)
(* keys are PEM texts, a signature is a hex string.  The signature         *)
(* primitive of the platform is ideal: a signature verifies exactly when   *)
(* it was produced over the same payload with the private key of the same  *)
(* pair (the triples of the table called signed).                          *)
(***************************************************************************)
Return(v) == [threw |-> FALSE, value |-> v]
Throw(msg) == [threw |-> TRUE, error |-> msg]

SupportedTypes == {"RSA-2048", "RSA-4096", "ECDSA-256"}
UnknownType == "DSA-1024"
SignatureTypes == SupportedTypes \cup {UnknownType}

MalformedKey == [pem |-> "garbage"]
PublicKey(n, alg, size) == [pem |-> "PUBLIC KEY", pair |-> n, alg |-> alg, size |-> size]
PrivateKey(n, alg, size) == [pem |-> "PRIVATE KEY", pair |-> n, alg |-> alg, size |-> size]
KeyPair(n, alg, size) ==
  [publicKey |-> PublicKey(n, alg, size), privateKey |-> PrivateKey(n, alg, size)]

PublicOf(privateKey) == [privateKey EXCEPT !.pem = "PUBLIC KEY"]

generateRSAKeyPair(keySize, n) == KeyPair(n, "rsa", keySize)
generateECDSAKeyPair(n) == KeyPair(n, "ec", 256)

\* n numbers the pair the platform's generator draws.
generateKeyPair(signatureType, n) ==
  CASE signatureType = "RSA-2048" -> Return(generateRSAKeyPair(2048, n))
    [] signatureType = "RSA-4096" -> Return(generateRSAKeyPair(4096, n))
    [] signatureType = "ECDSA-256" -> Return(generateECDSAKeyPair(n))
    [] OTHER -> Throw(<<"Key generation failed", "Unsupported signature type", signatureType>>)

\* The default branch returning the digest name instead of throwing.
getSigningAlgorithmDefault(signatureType) == Return("sha256")

\* The switch without its case 'RSA-4096'.
getSigningAlgorithmNoRsa4096(signatureType) ==
  IF signatureType \in {"RSA-2048", "ECDSA-256"}
  THEN Return("sha256")
  ELSE Throw(<<"Unknown signature type", signatureType>>)

getSigningAlgorithm(signatureType) ==
  IF signatureType \in SupportedTypes
  THEN Return("sha256")
  ELSE Throw(<<"Unknown signature type", signatureType>>)

\* Hex digits of the signature numbered serial: the number itself in the
\* first four digits, so that different numbers give different signatures.
SigDigits(serial, n) ==
  [k \in 1..n |-> IF k <= 4 THEN (serial \div (16 ^ (4 - k))) % 16
                  ELSE (serial + k) % 16]

\* Lengths in hex digits: an RSA signature is as long as the modulus, an
\* ECDSA signature over secp256k1 is a DER sequence of two integers.
SigHexLens(key) ==
  IF key.alg = "rsa" THEN {key.size \div 4} ELSE {140, 142}

\* RSA (PKCS#1 v1.5) signing is deterministic, ECDSA signing draws a nonce.
\* fresh is the hex string the primitive produces when it makes a new one.
primitiveSign(data, privateKey, table, fresh) ==
  LET prior == {e \in table : e.data = data /\ e.key = PublicOf(privateKey)}
  IN  IF privateKey.alg = "rsa" /\ prior # {}
      THEN (CHOOSE e \in prior : TRUE).sig
      ELSE fresh

sign(data, privateKey, signatureType, table, fresh) ==
  LET algorithm == getSigningAlgorithm(signatureType)
  IN  IF algorithm.threw
      THEN Throw(<<"Signing failed">> \o algorithm.error)
      ELSE IF privateKey.pem # "PRIVATE KEY"
           THEN Throw(<<"Signing failed", "error:1E08010C:DECODER routines::unsupported">>)
           ELSE Return(primitiveSign(data, privateKey, table, fresh))

\* The table after a call of sign.
signedAfter(table, data, privateKey, outcome) ==
  IF outcome.threw THEN table
  ELSE table \cup {[data |-> data, sig |-> outcome.value, key |-> PublicOf(privateKey)]}

\* The body of the try block of verify.
verifyBody(data, signature, publicKey, signatureType, table) ==
  LET algorithm == getSigningAlgorithm(signatureType)
  IN  IF algorithm.threw THEN algorithm
      ELSE IF publicKey.pem # "PUBLIC KEY"
           THEN Throw(<<"error:1E08010C:DECODER routines::unsupported">>)
           ELSE Return([data |-> data, sig |-> signature, key |-> publicKey] \in table)

\* verify without its catch clause.
verifyNoCatch(data, signature, publicKey, signatureType, table) ==
  verifyBody(data, signature, publicKey, signatureType, table)

\* verify with a catch clause that returns true.
verifyCatchTrue(data, signature, publicKey, signatureType, table) ==
  LET r == verifyBody(data, signature, publicKey, signatureType, table)
  IN  IF r.threw THEN Return(TRUE) ELSE r

verify(data, signature, publicKey, signatureType, table) ==
  LET r == verifyBody(data, signature, publicKey, signatureType, table)
  IN  IF r.threw THEN Return(FALSE) ELSE r

(***************************************************************************)
(* Image files and the rows of authenticated_images.                       *)
(***************************************************************************)
\* A file sharp decodes to width * height * 4 raw RGBA samples, and a file it
\* rejects.  PNG is lossless: decoding gives back the samples encoded.
Png(width, height, samples) ==
  [format |-> "png", width |-> width, height |-> height, samples |-> samples]
NotAnImage == [format |-> "text"]

\* A JPEG file: three channels (RGB) per pixel, no alpha.
Jpeg(width, height, samples) ==
  [format |-> "jpeg", width |-> width, height |-> height, samples |-> samples]

Channels(file) == IF file.format = "png" THEN 4 ELSE 3

\* RGB samples with an opaque alpha sample after every pixel, and RGBA
\* samples without their alpha samples.
ensureAlpha(samples) ==
  [i \in 1..((Len(samples) \div 3) * 4) |->
     IF (i - 1) % 4 = 3 THEN 255 ELSE samples[((i - 1) \div 4) * 3 + ((i - 1) % 4) + 1]]

dropAlpha(samples) ==
  [i \in 1..((Len(samples) \div 4) * 3) |->
     samples[((i - 1) \div 3) * 4 + ((i - 1) % 3) + 1]]

\* sharp(buffer).raw().ensureAlpha().toBuffer({ resolveWithObject: true })
sharpRaw(file) ==
  IF file.format = "png"
  THEN Return([data |-> file.samples,
               info |-> [width |-> file.width, height |-> file.height, channels |-> 4]])
  ELSE IF file.format = "jpeg"
       THEN Return([data |-> ensureAlpha(file.samples),
                    info |-> [width |-> file.width, height |-> file.height,
                              channels |-> 4]])
       ELSE Throw(<<"Input buffer contains unsupported image format">>)

\* sharp(buffer).raw().toBuffer({ resolveWithObject: true }): the channels of the file.
sharpRawNoAlpha(file) ==
  IF file.format \in {"png", "jpeg"}
  THEN Return([data |-> file.samples,
               info |-> [width |-> file.width, height |-> file.height,
                         channels |-> Channels(file)]])
  ELSE Throw(<<"Input buffer contains unsupported image format">>)

\* sharp(buffer).metadata()
sharpMetadata(file) ==
  IF file.format \in {"png", "jpeg"}
  THEN Return([width |-> file.width, height |-> file.height, channels |-> Channels(file)])
  ELSE Throw(<<"Input buffer contains unsupported image format">>)

\* sharp(data, { raw: info }).png().toBuffer()
sharpPng(data, info) ==
  IF Len(data) = info.width * info.height * info.channels
  THEN Return(Png(info.width, info.height, data))
  ELSE Throw(<<"Input buffer has incorrect size">>)

toBase64(file) == [base64 |-> file]
fromBase64(text) == text.base64

\* Values of the json column embed_positions: an array of offsets, null, or
\* a value that cannot be iterated.
JsonArray(items) == [json |-> "array", items |-> items]
Null == [json |-> "null"]
NonIterable == [json |-> "object"]

\* select().from(authenticatedImages).orderBy(desc(authenticationDate))
getAllAuthenticatedImagesAscending(rows) == rows

getAllAuthenticatedImages(rows) ==
  [i \in 1..Len(rows) |->
     CHOOSE r \in {rows[j] : j \in 1..Len(rows)} :
       Cardinality({j \in 1..Len(rows) :
                      rows[j].authenticationDate > r.authenticationDate}) = i - 1]

(***************************************************************************)
(* SteganographyService: the verification matcher.                         *)
(***************************************************************************)
\* Math.round((validBits / totalBits) * 100); 0 / 0 is NaN.
\* Only the character '1' counted as a valid bit.
calculateIntegrityScoreOnesOnly(bits) ==
  LET totalBits == Len(bits)
      validBits == Len(SelectSeq(bits, LAMBDA bit : bit = 1))
  IN  IF totalBits = 0 THEN NaN
      ELSE (200 * validBits + totalBits) \div (2 * totalBits)

calculateIntegrityScore(bits) ==
  LET totalBits == Len(bits)
      validBits == Len(SelectSeq(bits, LAMBDA bit : bit = 0 \/ bit = 1))
  IN  IF totalBits = 0 THEN NaN
      ELSE (200 * validBits + totalBits) \div (2 * totalBits)

\* The body of the inner try block for one row: skipped for the continue on
\* a missing value, an Error when the positions cannot be iterated.
extractionBody(image, pixelData) ==
  IF image.embedPositions = Null THEN [threw |-> FALSE, skipped |-> TRUE]
  ELSE IF image.embedPositions.json # "array"
       THEN [threw |-> TRUE, skipped |-> FALSE,
             error |-> <<"TypeError", "positions is not iterable">>]
       ELSE LET embedPositions == image.embedPositions.items
                extractedBits == extractLSB(pixelData, embedPositions)
                extractedSignature == bitsToSignature(extractedBits)
                integrityScore == calculateIntegrityScore(extractedBits)
            IN  [threw |-> FALSE, skipped |-> FALSE, value |->
                           [success |-> TRUE,
                            imageId |-> image.id,
                            signature |-> extractedSignature,
                            publicKey |-> image.publicKey,
                            signatureType |-> image.signatureType,
                            embedPositions |-> embedPositions,
                            integrityScore |-> integrityScore,
                            metadata |-> [artistName |-> image.artistName,
                                          artworkTitle |-> image.artworkTitle,
                                          creationDate |-> image.creationDate]]]

\* The loop without the inner try: the first Error ends it, and the outer
\* catch returns the attempts gathered before.
RECURSIVE extractionLoopNoCatch(_, _, _, _)
extractionLoopNoCatch(images, i, pixelData, attempts) ==
  IF i > Len(images) THEN attempts
  ELSE LET a == extractionBody(images[i], pixelData)
       IN  IF a.threw THEN attempts
           ELSE IF a.skipped
                THEN extractionLoopNoCatch(images, i + 1, pixelData, attempts)
                ELSE extractionLoopNoCatch(images, i + 1, pixelData, Append(attempts, a.value))

attemptSignatureExtractionNoCatch(pixelData, info, rows) ==
  extractionLoopNoCatch(getAllAuthenticatedImages(rows), 1, pixelData, <<>>)

RECURSIVE extractionLoop(_, _, _, _)
extractionLoop(images, i, pixelData, attempts) ==
  IF i > Len(images) THEN attempts
  ELSE LET a == extractionBody(images[i], pixelData)
       IN  IF a.threw \/ a.skipped
           THEN extractionLoop(images, i + 1, pixelData, attempts)
           ELSE extractionLoop(images, i + 1, pixelData, Append(attempts, a.value))

attemptSignatureExtraction(pixelData, info, rows) ==
  extractionLoop(getAllAuthenticatedImages(rows), 1, pixelData, <<>>)

Invalid(message) ==
  [isValid |-> FALSE,
   imageId |-> Undefined,
   extractedSignature |-> Undefined,
   integrityScore |-> 0,
   method |-> "LSB_extraction",
   errorMessage |-> Some(message),
   imageMetadata |-> Undefined]

\* The loop of verifyImage over the attempts from the i-th on.  checked lists
\* the rows handed to cryptographyService.verify so far.
RECURSIVE verifyLoop(_, _, _, _, _)
verifyLoop(attempts, i, pixelData, table, checked) ==
  IF i > Len(attempts)
  THEN [outcome |->
          Return(Invalid(<<"No valid signature found or signature verification failed">>)),
        checked |-> checked]
  ELSE LET attempt == attempts[i]
       IN  IF ~attempt.success
           THEN verifyLoop(attempts, i + 1, pixelData, table, checked)
           ELSE LET imageHash == computeImageHash(pixelData, attempt.embedPositions)
                    isValid == verify(imageHash, attempt.signature, attempt.publicKey,
                                      attempt.signatureType, table)
                    seen == Append(checked, attempt.imageId)
                IN  IF isValid.threw THEN [outcome |-> isValid, checked |-> seen]
                    ELSE IF isValid.value
                         THEN [outcome |->
                                 Return([isValid |-> TRUE,
                                         imageId |-> Some(attempt.imageId),
                                         extractedSignature |-> Some(attempt.signature),
                                         integrityScore |-> attempt.integrityScore,
                                         method |-> "LSB_extraction",
                                         errorMessage |-> Undefined,
                                         imageMetadata |-> Some(attempt.metadata)]),
                               checked |-> seen]
                         ELSE verifyLoop(attempts, i + 1, pixelData, table, seen)

\* verifyImage without its outer try: a decoding Error leaves the function.
verifyImageNoCatch(imageBuffer, rows, table) ==
  LET decoded == sharpRaw(imageBuffer)
  IN  IF decoded.threw
      THEN [result |-> decoded, checked |-> <<>>]
      ELSE LET pixelData == decoded.value.data
               extractionAttempts ==
                 attemptSignatureExtraction(pixelData, decoded.value.info, rows)
               scan == verifyLoop(extractionAttempts, 1, pixelData, table, <<>>)
           IN  IF scan.outcome.threw
               THEN [result |-> scan.outcome, checked |-> scan.checked]
               ELSE [result |-> scan.outcome.value, checked |-> scan.checked]

\* verifyImage: the result returned, with the rows checked on the way.
verifyImage(imageBuffer, rows, table) ==
  LET decoded == sharpRaw(imageBuffer)
  IN  IF decoded.threw
      THEN [result |-> Invalid(<<"Verification failed">> \o decoded.error),
            checked |-> <<>>]
      ELSE LET pixelData == decoded.value.data
               extractionAttempts ==
                 attemptSignatureExtraction(pixelData, decoded.value.info, rows)
               scan == verifyLoop(extractionAttempts, 1, pixelData, table, <<>>)
           IN  IF scan.outcome.threw
               THEN [result |-> Invalid(<<"Verification failed">> \o scan.outcome.error),
                     checked |-> scan.checked]
               ELSE [result |-> scan.outcome.value, checked |-> scan.checked]

\* attemptSignatureExtraction when storage.getAllAuthenticatedImages() rejects:
\* the outer catch logs the Error and the attempts gathered so far, none,
\* are returned.
attemptSignatureExtractionStoreDown(pixelData, info) == <<>>

\* verifyImage while the store cannot be read.
verifyImageStoreDown(imageBuffer, table) ==
  LET decoded == sharpRaw(imageBuffer)
  IN  IF decoded.threw
      THEN [result |-> Invalid(<<"Verification failed">> \o decoded.error),
            checked |-> <<>>]
      ELSE LET pixelData == decoded.value.data
               extractionAttempts ==
                 attemptSignatureExtractionStoreDown(pixelData, decoded.value.info)
               scan == verifyLoop(extractionAttempts, 1, pixelData, table, <<>>)
           IN  IF scan.outcome.threw
               THEN [result |-> Invalid(<<"Verification failed">> \o scan.outcome.error),
                     checked |-> scan.checked]
               ELSE [result |-> scan.outcome.value, checked |-> scan.checked]

(***************************************************************************)
(* AttackSimulationService.  What sharp makes of the samples in a lossy    *)
(* recompression, in a rotation or in a resize, and what the noise adds,   *)
(* is not fixed by this code: a transform yields a set of possible files   *)
(* and runSimulations a set of possible outcomes.                          *)
(***************************************************************************)
AttackTypes == {"jpeg_compression", "gaussian_noise", "cropping", "rotation", "scaling"}
UnknownAttack == "blur"

FlipLSB(b) == IF b % 2 = 0 THEN b + 1 ELSE b - 1

\* A buffer after a lossy recompression or after additive noise: every sample
\* as it was, or every sample moved by one.
Degraded(samples) == {samples, [i \in 1..Len(samples) |-> FlipLSB(samples[i])]}

\* A file resampled to width x height: its samples repeated over the new area.
Resampled(file, width, height) ==
  LET n == Len(file.samples)
      count == width * height * Channels(file)
  IN  {[file EXCEPT !.width = width, !.height = height,
                    !.samples = [i \in 1..count |-> file.samples[((i - 1) % n) + 1]]]}

\* sharp(buffer).resize(width, height): a positive integer is required for
\* each side; resizing to the size the file has leaves the samples alone.
sharpResize(file, width, height) ==
  IF file.format \notin {"png", "jpeg"}
  THEN {Throw(<<"Input buffer contains unsupported image format">>)}
  ELSE IF width <= 0 \/ height <= 0
       THEN {Throw(<<"Expected positive integer for width or height">>)}
       ELSE IF width = file.width /\ height = file.height
            THEN {Return(file)}
            ELSE {Return(r) : r \in Resampled(file, width, height)}

\* sharp(buffer).extract({ left, top, width, height }): the samples of the
\* rectangle, row by row.
sharpExtract(file, left, top, width, height) ==
  IF file.format \notin {"png", "jpeg"}
  THEN Throw(<<"Input buffer contains unsupported image format">>)
  ELSE IF \/ width <= 0 \/ height <= 0
          \/ left + width > file.width \/ top + height > file.height
       THEN Throw(<<"extract_area: bad extract area">>)
       ELSE LET ch == Channels(file)
            IN  Return([file EXCEPT
                  !.width = width, !.height = height,
                  !.samples = [i \in 1..(width * height * ch) |->
                     LET k == (i - 1) % ch
                         x == ((i - 1) \div ch) % width
                         y == ((i - 1) \div ch) \div width
                     IN  file.samples[((y + top) * file.width + (x + left)) * ch + k + 1]]])

applyJPEGCompression(buffer, quality) ==
  LET decoded == sharpRawNoAlpha(buffer)
  IN  IF decoded.threw THEN {decoded}
      ELSE LET rgb == IF decoded.value.info.channels = 4
                      THEN dropAlpha(decoded.value.data)
                      ELSE decoded.value.data
           IN  {Return(Jpeg(buffer.width, buffer.height, lossy)) : lossy \in Degraded(rgb)}

\* sigma is the fraction sigmaNum / sigmaDen.
applyGaussianNoise(buffer, sigmaNum, sigmaDen) ==
  LET decoded == sharpRawNoAlpha(buffer)
  IN  IF decoded.threw THEN {decoded}
      ELSE {sharpPng(noisyData, decoded.value.info) :
              noisyData \in IF sigmaNum = 0 THEN {decoded.value.data}
                            ELSE Degraded(decoded.value.data)}

applyCropping(buffer, cropPercentage) ==
  LET metadata == sharpMetadata(buffer)
  IN  IF metadata.threw THEN {metadata}
      ELSE LET cropSize ==
                 (Min(metadata.value.width, metadata.value.height) * cropPercentage) \div 100
           IN  {sharpExtract(buffer, cropSize, cropSize,
                             metadata.value.width - 2 * cropSize,
                             metadata.value.height - 2 * cropSize)}

\* The sides of the smallest upright rectangle around the image turned by
\* five degrees (cos 0.996, sin 0.087), rounded up.
RotatedWidth(file) == (996 * file.width + 87 * file.height + 999) \div 1000
RotatedHeight(file) == (87 * file.width + 996 * file.height + 999) \div 1000

\* Called with the angle 5 only.
applyRotation(buffer, angle) ==
  IF buffer.format \notin {"png", "jpeg"}
  THEN {Throw(<<"Input buffer contains unsupported image format">>)}
  ELSE {Return(r) : r \in Resampled(buffer, RotatedWidth(buffer), RotatedHeight(buffer))}

\* scaleFactor is the fraction scaleNum / scaleDen.
applyScaling(buffer, scaleNum, scaleDen) ==
  LET metadata == sharpMetadata(buffer)
  IN  IF metadata.threw THEN {metadata}
      ELSE LET newWidth == (metadata.value.width * scaleNum) \div scaleDen
               newHeight == (metadata.value.height * scaleNum) \div scaleDen
           IN  sharpResize(buffer, newWidth, newHeight)

\* A PSNR the code returns as a literal, and the value
\* Math.round(20 * Math.log10(255 / Math.sqrt(sum / n)) * 100) / 100, which
\* is kept as the sum of squared differences and the number of samples.
Decibels(v) == [exact |-> TRUE, value |-> v]
LogRatio(sum, n) == [exact |-> FALSE, sum |-> sum, n |-> n]

RECURSIVE sumSquares(_, _, _)
sumSquares(a, b, n) ==
  IF n = 0 THEN 0 ELSE (a[n] - b[n]) * (a[n] - b[n]) + sumSquares(a, b, n - 1)

\* The value without the line if (mse === 0) return 100.
psnrValueNoPerfectMatch(originalData, modifiedResized) ==
  LET minLength == Min(Len(originalData), Len(modifiedResized))
  IN  LogRatio(sumSquares(originalData, modifiedResized, minLength), minLength)

\* From the loop to the return of the try block of calculatePSNR.  mse is
\* sum / minLength: it is 0 exactly when the sum is 0 and minLength is not,
\* and NaN when both are 0.
psnrValue(originalData, modifiedResized) ==
  LET minLength == Min(Len(originalData), Len(modifiedResized))
      sum == sumSquares(originalData, modifiedResized, minLength)
  IN  IF minLength = 0 THEN Decibels(NaN)
      ELSE IF sum = 0 THEN Decibels(100)
           ELSE LogRatio(sum, minLength)

\* calculatePSNR: the values it may return, each with the two buffers compared.
calculatePSNR(original, modified) ==
  LET originalData == sharpRawNoAlpha(original)
      modifiedData == sharpRawNoAlpha(modified)
      originalMeta == sharpMetadata(original)
  IN  IF originalData.threw \/ modifiedData.threw \/ originalMeta.threw
      THEN {[psnr |-> Decibels(0), compared |-> <<>>]}
      ELSE {IF r.threw THEN [psnr |-> Decibels(0), compared |-> <<>>]
            ELSE [psnr |-> psnrValue(originalData.value.data, r.value.samples),
                  compared |-> <<originalData.value.data, r.value.samples>>] :
              r \in sharpResize(modified, originalMeta.value.width,
                                originalMeta.value.height)}

\* The switch of simulateAttack: the parameters (name, numerator, denominator)
\* and the call of the transform.
attackParameters(attackType) ==
  CASE attackType = "jpeg_compression" -> <<<<"quality", 70, 1>>>>
    [] attackType = "gaussian_noise" -> <<<<"sigma", 1, 10>>>>
    [] attackType = "cropping" -> <<<<"cropPercentage", 10, 1>>>>
    [] attackType = "rotation" -> <<<<"angle", 5, 1>>>>
    [] attackType = "scaling" -> <<<<"scaleFactor", 8, 10>>>>

applyAttack(originalBuffer, attackType) ==
  CASE attackType = "jpeg_compression" -> applyJPEGCompression(originalBuffer, 70)
    [] attackType = "gaussian_noise" -> applyGaussianNoise(originalBuffer, 1, 10)
    [] attackType = "cropping" -> applyCropping(originalBuffer, 10)
    [] attackType = "rotation" -> applyRotation(originalBuffer, 5)
    [] attackType = "scaling" -> applyScaling(originalBuffer, 8, 10)

\* integrityLoss: verificationResult.integrityScore where the code has
\* 100 - verificationResult.integrityScore.
attackResultLossIsScore(attackType, parameters, beforeImageData, afterImageData, verificationResult, psnr) ==
  [attackType |-> attackType,
   parameters |-> parameters,
   beforeImageData |-> beforeImageData,
   afterImageData |-> afterImageData,
   verificationPassed |-> verificationResult.isValid,
   integrityLoss |-> verificationResult.integrityScore,
   psnr |-> psnr,
   extractionSuccessful |-> verificationResult.extractedSignature.def]

\* The object simulateAttack returns.
attackResult(attackType, parameters, beforeImageData, afterImageData, verificationResult, psnr) ==
  [attackType |-> attackType,
   parameters |-> parameters,
   beforeImageData |-> beforeImageData,
   afterImageData |-> afterImageData,
   verificationPassed |-> verificationResult.isValid,
   integrityLoss |-> IF verificationResult.integrityScore = NaN THEN NaN
                     ELSE 100 - verificationResult.integrityScore,
   psnr |-> psnr,
   extractionSuccessful |-> verificationResult.extractedSignature.def]

simulateAttack(originalBuffer, attackType, image, rows, table) ==
  IF attackType \notin AttackTypes
  THEN {Throw(<<"Unknown attack type", attackType>>)}
  ELSE UNION
         {IF attacked.threw THEN {attacked}
          ELSE LET attackedBuffer == attacked.value
                   verificationResult == verifyImage(attackedBuffer, rows, table).result
               IN  {Return(attackResult(attackType, attackParameters(attackType),
                                        toBase64(originalBuffer), toBase64(attackedBuffer),
                                        verificationResult, p.psnr)) :
                      p \in calculatePSNR(originalBuffer, attackedBuffer)} :
            attacked \in applyAttack(originalBuffer, attackType)}

\* The result pushed in the catch clause of runSimulations.
\* The result of the catch clause with integrityLoss 0 where the code has 100.
failedResultZeroLoss(attackType, image) ==
  [attackType |-> attackType,
   parameters |-> <<>>,
   beforeImageData |-> image.imageData,
   afterImageData |-> image.imageData,
   verificationPassed |-> FALSE,
   integrityLoss |-> 0,
   psnr |-> Decibels(0),
   extractionSuccessful |-> FALSE]

failedResult(attackType, image) ==
  [attackType |-> attackType,
   parameters |-> <<>>,
   beforeImageData |-> image.imageData,
   afterImageData |-> image.imageData,
   verificationPassed |-> FALSE,
   integrityLoss |-> 100,
   psnr |-> Decibels(0),
   extractionSuccessful |-> FALSE]

\* The loop without its try: the first attack that fails ends the call.
RECURSIVE simulationLoopNoCatch(_, _, _, _, _, _)
simulationLoopNoCatch(image, originalBuffer, attackTypes, i, rows, table) ==
  IF i > Len(attackTypes) THEN {Return(<<>>)}
  ELSE UNION
         {IF o.threw THEN {o}
          ELSE {IF rest.threw THEN rest ELSE Return(<<o.value>> \o rest.value) :
                  rest \in simulationLoopNoCatch(image, originalBuffer, attackTypes,
                                                 i + 1, rows, table)} :
            o \in simulateAttack(originalBuffer, attackTypes[i], image, rows, table)}

runSimulationsNoCatch(image, attackTypes, rows, table) ==
  simulationLoopNoCatch(image, fromBase64(image.imageData), attackTypes, 1, rows, table)

\* The possible results of the attacks from the i-th on.
RECURSIVE simulationLoop(_, _, _, _, _, _)
simulationLoop(image, originalBuffer, attackTypes, i, rows, table) ==
  IF i > Len(attackTypes) THEN {<<>>}
  ELSE {<<entry>> \o rest :
          entry \in {IF o.threw THEN failedResult(attackTypes[i], image) ELSE o.value :
                        o \in simulateAttack(originalBuffer, attackTypes[i], image,
                                             rows, table)},
          rest \in simulationLoop(image, originalBuffer, attackTypes, i + 1, rows, table)}

runSimulations(image, attackTypes, rows, table) ==
  {Return(results) :
     results \in simulationLoop(image, fromBase64(image.imageData), attackTypes, 1,
                                rows, table)}

(***************************************************************************)
(* SteganographyService.authenticateImage and the two routes.              *)
(***************************************************************************)
\* The body of the try block of authenticateImage.  fresh is the hex string
\* the signature primitive produces when it makes a new signature.
authenticateBody(imageBuffer, metadata, keyPair, table, fresh) ==
  LET decoded == sharpRaw(imageBuffer)
  IN  IF decoded.threw THEN decoded
      ELSE LET pixelData == decoded.value.data
               info == decoded.value.info
               embedPositions ==
                 generateEmbedPositions(info.width * info.height * info.channels)
               imageHash == computeImageHash(pixelData, embedPositions)
               signature == sign(imageHash, keyPair.privateKey, metadata.signatureType,
                                 table, fresh)
           IN  IF signature.threw THEN signature
               ELSE LET signatureBits == signatureToBits(signature.value)
                        stegoPixelData == embedLSB(pixelData, signatureBits, embedPositions)
                        stegoImageBuffer == sharpPng(stegoPixelData, info)
                    IN  IF stegoImageBuffer.threw THEN stegoImageBuffer
                        ELSE Return([stegoImageData |-> toBase64(stegoImageBuffer.value),
                                     signatureHash |-> sha256(signature.value),
                                     embedPositions |-> embedPositions,
                                     signedData |-> imageHash,
                                     signature |-> signature.value])

\* A variant whose catch block returns a result for the unprocessed upload
\* instead of throwing.
authenticateImageSwallowing(imageBuffer, metadata, keyPair, table, fresh) ==
  LET r == authenticateBody(imageBuffer, metadata, keyPair, table, fresh)
  IN  IF r.threw
      THEN Return([stegoImageData |-> toBase64(imageBuffer),
                   signatureHash |-> sha256(fresh),
                   embedPositions |-> <<>>,
                   signedData |-> computeImageHash(<<>>, <<>>),
                   signature |-> fresh])
      ELSE r

\* signedData and signature are not part of the EmbedResult: they tell the
\* caller of this definition which triple the call of sign added to the table.
authenticateImage(imageBuffer, metadata, keyPair, table, fresh) ==
  LET r == authenticateBody(imageBuffer, metadata, keyPair, table, fresh)
  IN  IF r.threw THEN Throw(<<"Steganographic embedding failed">> \o r.error) ELSE r

\* insert(authenticatedImages).values(image).returning(): the serial id, and
\* defaultNow() for authentication_date.  Requests are handled one after the
\* other, so the timestamp of the n-th insert is n.
createAuthenticatedImage(rows, id, image) ==
  Append(rows, [id |-> id,
                authenticationDate |-> id,
                artistName |-> image.artistName,
                artworkTitle |-> image.artworkTitle,
                creationDate |-> image.creationDate,
                signatureType |-> image.signatureType,
                publicKey |-> image.publicKey,
                privateKey |-> image.privateKey,
                signatureHash |-> image.signatureHash,
                imageData |-> image.imageData,
                embedPositions |-> image.embedPositions])

createVerificationLog(rows, log) == Append(rows, log)

NoFile == [format |-> "none"]

Response(op, status, body) == [op |-> op, status |-> status, body |-> body]

\* POST /api/authenticate
AuthenticateRequest(file, signatureType) ==
  /\ request' = [op |-> "authenticate", file |-> file, signatureType |-> signatureType]
  /\ logs' = logs
  /\ call' = call
  /\ out' = out
  /\ IF file = NoFile
     THEN /\ result' = Response("authenticate", 400, [message |-> "No image file provided"])
          /\ UNCHANGED <<store, nextId, keysMade, signed>>
     ELSE /\ keysMade < MaxAuths
          /\ LET basicMetadata == [artistName |-> "artist",
                                   artworkTitle |-> "title",
                                   creationDate |-> 0,
                                   signatureType |-> signatureType]
                 keyPair == generateKeyPair(signatureType, keysMade + 1)
             IN  IF keyPair.threw
                 THEN /\ result' = Response("authenticate", 500,
                                            [message |-> "Failed to authenticate image"])
                      /\ UNCHANGED <<store, nextId, keysMade, signed>>
                 ELSE /\ keysMade' = keysMade + 1
                      /\ \E len \in SigHexLens(keyPair.value.privateKey) :
                           \E r \in {authenticateImage(file, basicMetadata, keyPair.value,
                                      signed, SigDigits(Cardinality(signed) + 1, len))} :
                               IF r.threw
                               THEN /\ result' = Response("authenticate", 500,
                                              [message |-> "Failed to authenticate image"])
                                    /\ UNCHANGED <<store, nextId, signed>>
                               ELSE /\ signed' = signed \cup
                                          {[data |-> r.value.signedData,
                                            sig |-> r.value.signature,
                                            key |-> keyPair.value.publicKey]}
                                    /\ store' = createAuthenticatedImage(store, nextId,
                                          [artistName |-> basicMetadata.artistName,
                                           artworkTitle |-> basicMetadata.artworkTitle,
                                           creationDate |-> basicMetadata.creationDate,
                                           signatureType |-> signatureType,
                                           publicKey |-> keyPair.value.publicKey,
                                           privateKey |-> keyPair.value.privateKey,
                                           signatureHash |-> r.value.signatureHash,
                                           imageData |-> r.value.stegoImageData,
                                           embedPositions |-> JsonArray(r.value.embedPositions)])
                                    /\ nextId' = nextId + 1
                                    /\ result' = Response("authenticate", 200,
                                          [id |-> nextId,
                                           signatureHash |-> r.value.signatureHash,
                                           stegoImageData |-> r.value.stegoImageData,
                                           publicKey |-> keyPair.value.publicKey])

\* if (result.imageId): undefined and 0 are falsy.
Truthy(field) == field.def /\ field.v # 0

\* POST /api/verify
VerifyRequest(file) ==
  /\ request' = [op |-> "verify", file |-> file]
  /\ UNCHANGED <<store, nextId, keysMade, signed, call, out>>
  /\ IF file = NoFile
     THEN /\ result' = Response("verify", 400, [message |-> "No image file provided"])
          /\ logs' = logs
     ELSE \E r \in {verifyImage(file, store, signed).result} :
              /\ result' = Response("verify", 200, r)
              /\ logs' = IF Truthy(r.imageId)
                         THEN createVerificationLog(logs,
                                [imageId |-> r.imageId,
                                 verificationResult |-> r.isValid,
                                 extractedSignature |-> r.extractedSignature,
                                 integrityScore |-> r.integrityScore,
                                 verificationMethod |-> r.method,
                                 errorMessage |-> r.errorMessage])
                         ELSE logs
              /\ Len(logs') <= MaxLogs

\* Files a client uploads: a solid-colour image of 2048 samples, images of
\* 2052 and of 4100 samples, a file that is no image, and no file at all.
SolidImage == Png(16, 32, [p \in 1..2048 |-> 77])
GradientImage == Png(19, 27, [p \in 1..2052 |-> (p * 7) % 256])
WideImage == Png(41, 25, [p \in 1..4100 |-> (p * 3) % 256])
LargeUploads == {SolidImage, GradientImage, WideImage}
Uploads == {SolidImage, NotAnImage, NoFile}

\* The stego files of the stored records, as a client downloads them.
StegoFiles == {fromBase64(store[i].imageData) : i \in 1..Len(store)}

\* A file with the least significant bit of its first sample flipped.
FlipFirstLSB(file) ==
  [file EXCEPT !.samples[1] = IF @ % 2 = 0 THEN @ + 1 ELSE @ - 1]

Init ==
  /\ store = <<>>
  /\ nextId = 1
  /\ keysMade = 0
  /\ signed = {}
  /\ logs = <<>>
  /\ request = [op |-> "none"]
  /\ result = [op |-> "none"]
  /\ call = NoCall
  /\ out = NoOut

Next ==
  \/ \E f \in Uploads, t \in SignatureTypes : AuthenticateRequest(f, t)
  \/ \E f \in Uploads \cup StegoFiles \cup {FlipFirstLSB(g) : g \in StegoFiles} :
       VerifyRequest(f)

Spec == Init /\ [][Next]_vars

(***************************************************************************)
(* Direct calls of the pure helpers: the input is drawn in the initial     *)
(* state and one action applies the helper to it.                          *)
(***************************************************************************)
ScenarioSamples == {4095, 4096, 10000, 40000}

PositionCalls ==
  {[fn |-> "generateEmbedPositions", totalSamples |-> t] :
     t \in (0..MaxSamples) \cup ScenarioSamples}

SysIdle ==
  /\ store = <<>>
  /\ nextId = 1
  /\ keysMade = 0
  /\ signed = {}
  /\ logs = <<>>
  /\ request = [op |-> "none"]
  /\ result = [op |-> "none"]

InitPositions == SysIdle /\ call \in PositionCalls /\ out = NoOut

CallGenerateEmbedPositions ==
  /\ call.fn = "generateEmbedPositions"
  /\ out = NoOut
  /\ out' = [fn |-> call.fn, positions |-> generateEmbedPositions(call.totalSamples)]
  /\ UNCHANGED <<call, sysVars>>

SpecPositions == InitPositions /\ [][CallGenerateEmbedPositions]_vars

InitCodec ==
  /\ SysIdle
  /\ \E b \in SeqsUpTo(ByteVals, MaxBuf), s \in SeqsUpTo({0, 1}, MaxBits),
        ps \in SeqsUpTo(0..MaxPos, MaxPosLen) :
       call = [fn |-> "codec", buf |-> b, bits |-> s, positions |-> ps]
  /\ out = NoOut

\* embedLSB, then extractLSB and computeImageHash on the clean and the stego buffer.
CallCodec ==
  /\ call.fn = "codec"
  /\ out = NoOut
  /\ LET stego == embedLSB(call.buf, call.bits, call.positions)
     IN  out' = [fn |-> call.fn,
                 stego |-> stego,
                 extracted |-> extractLSB(stego, call.positions),
                 hashClean |-> computeImageHash(call.buf, call.positions),
                 hashStego |-> computeImageHash(stego, call.positions)]
  /\ UNCHANGED <<call, sysVars>>

SpecCodec == InitCodec /\ [][CallCodec]_vars

(***************************************************************************)
(* Direct calls of signatureToBits on a hex text and of bitsToSignature on *)
(* a bit string; the hex text goes through both, one after the other.      *)
(***************************************************************************)
HexAlphabet ==
  {HexChars[v] : v \in 1..16} \cup {UpperHexChars[v] : v \in 1..6}

InitHex ==
  /\ SysIdle
  /\ \/ \E text \in SeqsUpTo(HexAlphabet, MaxHexLen) :
          call = [fn |-> "signatureToBits", signature |-> text]
     \/ \E bits \in SeqsUpTo({0, 1}, MaxHexBits) :
          call = [fn |-> "bitsToSignature", bits |-> bits]
  /\ out = NoOut

CallSignatureToBits ==
  /\ call.fn = "signatureToBits"
  /\ out = NoOut
  /\ LET bits == signatureToBits(hexDigits(call.signature))
     IN  out' = [fn |-> call.fn,
                 bits |-> bits,
                 back |-> hexText(bitsToSignature(bits))]
  /\ UNCHANGED <<call, sysVars>>

CallBitsToSignature ==
  /\ call.fn = "bitsToSignature"
  /\ out = NoOut
  /\ out' = [fn |-> call.fn, signature |-> hexText(bitsToSignature(call.bits))]
  /\ UNCHANGED <<call, sysVars>>

NextHex == CallSignatureToBits \/ CallBitsToSignature

SpecHex == InitHex /\ [][NextHex]_vars

(***************************************************************************)
(* Direct calls of CryptographyService: generateKeyPair, sign and verify   *)
(* on payloads, keys and scheme names of every kind.                       *)
(***************************************************************************)
CryptoPayloads == {"digest-a", "digest-b"}

CryptoPairs ==
  {generateKeyPair("RSA-2048", 1).value,
   generateKeyPair("ECDSA-256", 2).value}

CryptoKeys ==
  {kp.publicKey : kp \in CryptoPairs} \cup {kp.privateKey : kp \in CryptoPairs}
    \cup {MalformedKey}

InitCrypto ==
  /\ store = <<>>
  /\ nextId = 1
  /\ keysMade = 0
  /\ signed = {}
  /\ logs = <<>>
  /\ request = [op |-> "none"]
  /\ result = [op |-> "none"]
  /\ call = NoCall
  /\ out = NoOut

CallGenerateKeyPair(signatureType) ==
  /\ keysMade < MaxKeys
  /\ LET outcome == generateKeyPair(signatureType, keysMade + 1)
     IN  /\ call' = [fn |-> "generateKeyPair", signatureType |-> signatureType]
         /\ out' = [fn |-> "generateKeyPair", outcome |-> outcome]
         /\ keysMade' = IF outcome.threw THEN keysMade ELSE keysMade + 1
  /\ UNCHANGED <<store, nextId, signed, logs, request, result>>

CallSign(data, key, signatureType) ==
  /\ \E len \in (IF key = MalformedKey THEN {0} ELSE SigHexLens(key)) :
       LET fresh == SigDigits(Cardinality(signed) + 1, len)
           outcome == sign(data, key, signatureType, signed, fresh)
       IN  /\ call' = [fn |-> "sign", data |-> data, key |-> key,
                       signatureType |-> signatureType]
           /\ out' = [fn |-> "sign", outcome |-> outcome]
           /\ signed' = signedAfter(signed, data, key, outcome)
           /\ Cardinality(signed') <= MaxSigned
  /\ UNCHANGED <<store, nextId, keysMade, logs, request, result>>

\* Signatures to verify: those made so far and a string nobody signed.
CryptoSignatures == {e.sig : e \in signed} \cup {SigDigits(4095, 8)}

CallVerify(data, signature, key, signatureType) ==
  /\ call' = [fn |-> "verify", data |-> data, signature |-> signature, key |-> key,
              signatureType |-> signatureType]
  /\ out' = [fn |-> "verify",
             outcome |-> verify(data, signature, key, signatureType, signed)]
  /\ UNCHANGED sysVars

NextCrypto ==
  \/ \E t \in SignatureTypes : CallGenerateKeyPair(t)
  \/ \E d \in CryptoPayloads, k \in CryptoKeys, t \in SignatureTypes : CallSign(d, k, t)
  \/ \E d \in CryptoPayloads, sg \in CryptoSignatures, k \in CryptoKeys,
        t \in SignatureTypes : CallVerify(d, sg, k, t)

SpecCrypto == InitCrypto /\ [][NextCrypto]_vars

(***************************************************************************)
(* Signing and verifying with the keys of one pair per supported scheme.   *)
(***************************************************************************)
SchemePairs ==
  {generateKeyPair("RSA-2048", 1).value,
   generateKeyPair("ECDSA-256", 2).value,
   generateKeyPair("RSA-4096", 3).value}

\* The pairs generateKeyPair produces for the scheme.
PairsOfScheme(signatureType) ==
  {kp \in SchemePairs : \E n \in 1..3 : generateKeyPair(signatureType, n) = Return(kp)}

NextSignVerify ==
  \/ \E t \in SupportedTypes : CallGenerateKeyPair(t)
  \/ \E d \in CryptoPayloads, t \in SupportedTypes :
       \E kp \in PairsOfScheme(t) : CallSign(d, kp.privateKey, t)
  \/ \E d \in CryptoPayloads, sg \in CryptoSignatures, t \in SupportedTypes :
       \E kp \in PairsOfScheme(t) : CallVerify(d, sg, kp.publicKey, t)

SpecSignVerify == InitCrypto /\ [][NextSignVerify]_vars

(***************************************************************************)
(* Direct calls of verifyImage.  The rows it reads come from the record    *)
(* store, an external collaborator: the initial state draws rows of every  *)
(* kind the table admits (embed_positions is a nullable json column, the   *)
(* key and the scheme are free text), and the signatures that verify.      *)
(***************************************************************************)
MatcherSamples == <<10, 11, 12, 13, 200, 201, 202, 203>>
MatcherTampered == [MatcherSamples EXCEPT ![2] = 10]
MatcherFiles ==
  {Png(1, 2, MatcherSamples), Png(1, 2, MatcherTampered), NotAnImage}

MatcherPositions == {<<0, 1, 2, 3, 4, 5, 6, 7>>, <<0, 2, 4, 6>>}
MatcherKeys == {PublicKey(1, "rsa", 2048), PublicKey(2, "rsa", 2048)}

\* What a holder of the private keys may have signed: the signature that
\* MatcherSamples carries at either position sequence.
MatcherSignable ==
  {[data |-> computeImageHash(MatcherSamples, ps),
    sig |-> bitsToSignature(extractLSB(MatcherSamples, ps)),
    key |-> k] : ps \in MatcherPositions, k \in MatcherKeys}

\* The last template is a row with an empty array of positions.
RowTemplates ==
  {[embedPositions |-> ps, publicKey |-> k, signatureType |-> t] :
     ps \in {JsonArray(q) : q \in MatcherPositions} \cup {Null, NonIterable},
     k \in MatcherKeys \cup {MalformedKey},
     t \in {"RSA-2048", UnknownType}}
    \cup {[embedPositions |-> JsonArray(<<>>),
           publicKey |-> PublicKey(1, "rsa", 2048),
           signatureType |-> "RSA-2048"]}

\* The i-th row inserted: the serial id and the insertion timestamp are i.
MatcherRow(i, tpl) ==
  [id |-> i,
   authenticationDate |-> i,
   artistName |-> "artist",
   artworkTitle |-> "title",
   creationDate |-> 0,
   publicKey |-> tpl.publicKey,
   signatureType |-> tpl.signatureType,
   embedPositions |-> tpl.embedPositions]

MatcherStores ==
  {[i \in 1..Len(ts) |-> MatcherRow(i, ts[i])] : ts \in SeqsUpTo(RowTemplates, MaxStore)}

InitMatcher ==
  /\ store \in MatcherStores
  /\ nextId = Len(store) + 1
  /\ keysMade = 0
  /\ signed \in SUBSET MatcherSignable
  /\ logs = <<>>
  /\ request = [op |-> "none"]
  /\ result = [op |-> "none"]
  /\ call = NoCall
  /\ out = NoOut

CallVerifyImage(file) ==
  /\ out = NoOut
  /\ call' = [fn |-> "verifyImage", file |-> file]
  /\ \E r \in {verifyImage(file, store, signed)} :
       out' = [fn |-> "verifyImage", result |-> r.result, checked |-> r.checked]
  /\ UNCHANGED sysVars

NextMatcher == \E f \in MatcherFiles : CallVerifyImage(f)

SpecMatcher == InitMatcher /\ [][NextMatcher]_vars

(***************************************************************************)
(* Direct calls of verifyImage while the store answers and while it does   *)
(* not, on rows that match, rows without positions, rows whose positions   *)
(* cannot be iterated and rows with a malformed key or an unknown scheme.  *)
(***************************************************************************)
OutcomeTemplates ==
  {[embedPositions |-> JsonArray(<<0, 1, 2, 3, 4, 5, 6, 7>>),
    publicKey |-> PublicKey(1, "rsa", 2048), signatureType |-> "RSA-2048"],
   [embedPositions |-> JsonArray(<<0, 2, 4, 6>>),
    publicKey |-> PublicKey(2, "rsa", 2048), signatureType |-> "RSA-2048"],
   [embedPositions |-> Null,
    publicKey |-> PublicKey(1, "rsa", 2048), signatureType |-> "RSA-2048"],
   [embedPositions |-> NonIterable,
    publicKey |-> PublicKey(1, "rsa", 2048), signatureType |-> "RSA-2048"],
   [embedPositions |-> JsonArray(<<0, 1, 2, 3, 4, 5, 6, 7>>),
    publicKey |-> MalformedKey, signatureType |-> "RSA-2048"],
   [embedPositions |-> JsonArray(<<0, 1, 2, 3, 4, 5, 6, 7>>),
    publicKey |-> PublicKey(1, "rsa", 2048), signatureType |-> UnknownType]}

OutcomeStores ==
  {[i \in 1..Len(ts) |-> MatcherRow(i, ts[i])] :
     ts \in SeqsUpTo(OutcomeTemplates, MaxStore)}

InitOutcome ==
  /\ store \in OutcomeStores
  /\ nextId = Len(store) + 1
  /\ keysMade = 0
  /\ signed \in SUBSET MatcherSignable
  /\ logs = <<>>
  /\ request = [op |-> "none"]
  /\ result = [op |-> "none"]
  /\ call = NoCall
  /\ out = NoOut

CallVerifyImageStoreDown(file) ==
  /\ out = NoOut
  /\ call' = [fn |-> "verifyImage", file |-> file, storeRead |-> "rejected"]
  /\ LET r == verifyImageStoreDown(file, signed)
     IN  out' = [fn |-> "verifyImage", result |-> r.result, checked |-> r.checked]
  /\ UNCHANGED sysVars

NextOutcome ==
  \/ \E f \in MatcherFiles : CallVerifyImage(f)
  \/ \E f \in MatcherFiles : CallVerifyImageStoreDown(f)

SpecOutcome == InitOutcome /\ [][NextOutcome]_vars

(***************************************************************************)
(* POST /api/authenticate alone: uploads of an image of eight samples, of  *)
(* a file that is no image and of no file, under every scheme name.        *)
(***************************************************************************)
AuthenticateUploads == {Png(1, 2, <<10, 11, 12, 13, 200, 201, 202, 203>>), NotAnImage, NoFile}

NextAuthenticate ==
  \E f \in AuthenticateUploads, t \in SignatureTypes : AuthenticateRequest(f, t)

SpecAuthenticate == Init /\ [][NextAuthenticate]_vars

(***************************************************************************)
(* POST /api/verify on a store of a few rows: a row whose signature spans  *)
(* all eight samples, a row that reads every other sample under a second   *)
(* key, and a row without positions.                                       *)
(***************************************************************************)
VerifyRouteTemplates ==
  {[embedPositions |-> JsonArray(<<0, 1, 2, 3, 4, 5, 6, 7>>),
    publicKey |-> PublicKey(1, "rsa", 2048), signatureType |-> "RSA-2048"],
   [embedPositions |-> JsonArray(<<0, 2, 4, 6>>),
    publicKey |-> PublicKey(2, "rsa", 2048), signatureType |-> "RSA-2048"],
   [embedPositions |-> Null,
    publicKey |-> PublicKey(1, "rsa", 2048), signatureType |-> "RSA-2048"]}

VerifyRouteStores ==
  {[i \in 1..Len(ts) |-> MatcherRow(i, ts[i])] :
     ts \in SeqsUpTo(VerifyRouteTemplates, MaxStore)}

InitVerifyRoute ==
  /\ store \in VerifyRouteStores
  /\ nextId = Len(store) + 1
  /\ keysMade = 0
  /\ signed \in SUBSET MatcherSignable
  /\ logs = <<>>
  /\ request = [op |-> "none"]
  /\ result = [op |-> "none"]
  /\ call = NoCall
  /\ out = NoOut

NextVerifyRoute == \E f \in MatcherFiles \cup {NoFile} : VerifyRequest(f)

SpecVerifyRoute == InitVerifyRoute /\ [][NextVerifyRoute]_vars

(***************************************************************************)
(* Authentication with RSA-2048 of images of at least 2048 samples, and    *)
(* then one call of verifyImage on an upload, on the stego file of a       *)
(* stored record or on such a file with one bit flipped.                   *)
(***************************************************************************)
NextRsa2048 ==
  \/ /\ out = NoOut
     /\ \E f \in LargeUploads : AuthenticateRequest(f, "RSA-2048")
  \/ \E f \in LargeUploads \cup {NotAnImage} \cup StegoFiles
                \cup {FlipFirstLSB(g) : g \in StegoFiles} : CallVerifyImage(f)

SpecRsa2048 == Init /\ [][NextRsa2048]_vars

(***************************************************************************)
(* Authentication with RSA-2048 of images of at least 2048 samples, and    *)
(* then one call of verifyImage on the stego file of a stored record with  *)
(* some of its bits flipped: the lowest or the highest bit of the first or *)
(* of the last sample, the lowest bit of the second sample, or the lowest  *)
(* bits of the first and the last sample together.                         *)
(***************************************************************************)
FlipBit(v, b) == IF (v \div (2 ^ b)) % 2 = 1 THEN v - 2 ^ b ELSE v + 2 ^ b

\* The file with bit b of the sample at offset p flipped, for every <<p, b>>
\* of flips (at most one flip per sample).
Tamper(file, flips) ==
  [file EXCEPT !.samples =
     [p \in 1..Len(file.samples) |->
        IF \E f \in flips : f[1] = p - 1
        THEN FlipBit(file.samples[p], (CHOOSE f \in flips : f[1] = p - 1)[2])
        ELSE file.samples[p]]]

Tampers(file) ==
  LET n == Len(file.samples)
  IN  {{<<p, b>>} : p \in {0, n - 1}, b \in {0, 7}}
        \cup {{<<1, 0>>}, {<<0, 0>>, <<n - 1, 0>>}}

NextTamper ==
  \/ /\ out = NoOut
     /\ \E f \in LargeUploads : AuthenticateRequest(f, "RSA-2048")
  \/ \E g \in StegoFiles : \E flips \in Tampers(g) : CallVerifyImage(Tamper(g, flips))

SpecTamper == Init /\ [][NextTamper]_vars

(***************************************************************************)
(* Authentication of images of at least 2048 samples under each of the     *)
(* supported schemes.                                                      *)
(***************************************************************************)
NextSchemes ==
  \E f \in LargeUploads, t \in SupportedTypes : AuthenticateRequest(f, t)

SpecSchemes == Init /\ [][NextSchemes]_vars

(***************************************************************************)
(* Direct calls of AttackSimulationService.runSimulations on a record of   *)
(* the store, of verifyImage and of calculatePSNR.  The rows are drawn in  *)
(* the initial state: records of a 1 x 2 and of a 2 x 2 image, and a       *)
(* record whose image data is no image.                                    *)
(***************************************************************************)
AttackImageA == Png(1, 2, MatcherSamples)
AttackImageB == Png(2, 2, [p \in 1..16 |-> (p * 37) % 256])

AttackTemplates ==
  {[imageData |-> toBase64(AttackImageA),
    embedPositions |-> JsonArray(<<0, 1, 2, 3, 4, 5, 6, 7>>)],
   [imageData |-> toBase64(AttackImageB),
    embedPositions |-> JsonArray(<<0, 2, 4, 6>>)],
   [imageData |-> toBase64(NotAnImage),
    embedPositions |-> Null]}

\* What the holder of the private key signed: the signature each image carries.
AttackSignable ==
  {[data |-> computeImageHash(fromBase64(t.imageData).samples, t.embedPositions.items),
    sig |-> bitsToSignature(extractLSB(fromBase64(t.imageData).samples,
                                       t.embedPositions.items)),
    key |-> PublicKey(1, "rsa", 2048)] :
     t \in {u \in AttackTemplates : u.embedPositions # Null}}

AttackRow(i, tpl) ==
  [id |-> i,
   authenticationDate |-> i,
   artistName |-> "artist",
   artworkTitle |-> "title",
   creationDate |-> 0,
   publicKey |-> PublicKey(1, "rsa", 2048),
   signatureType |-> "RSA-2048",
   signatureHash |-> sha256(<<i>>),
   imageData |-> tpl.imageData,
   embedPositions |-> tpl.embedPositions]

AttackStores ==
  {[i \in 1..Len(ts) |-> AttackRow(i, ts[i])] : ts \in SeqsUpTo(AttackTemplates, MaxStore)}

InitAttacks ==
  /\ store \in AttackStores
  /\ nextId = Len(store) + 1
  /\ keysMade = 0
  /\ signed \in SUBSET AttackSignable
  /\ logs = <<>>
  /\ request = [op |-> "none"]
  /\ result = [op |-> "none"]
  /\ call = NoCall
  /\ out = NoOut

\* runSimulations with an UPDATE of the record: the attacked image of the
\* last attack written back as its image data.
CallRunSimulationsPersisting(image, attackTypes) ==
  /\ out = NoOut
  /\ call' = [fn |-> "runSimulations", image |-> image, attackTypes |-> attackTypes]
  /\ \E o \in runSimulations(image, attackTypes, store, signed) :
       /\ out' = [fn |-> "runSimulations", outcome |-> o]
       /\ store' = [i \in 1..Len(store) |->
                      IF store[i].id = image.id /\ Len(o.value) > 0
                      THEN [store[i] EXCEPT
                              !.imageData = o.value[Len(o.value)].afterImageData]
                      ELSE store[i]]
  /\ UNCHANGED <<nextId, keysMade, signed, logs, request, result>>

CallRunSimulations(image, attackTypes) ==
  /\ out = NoOut
  /\ call' = [fn |-> "runSimulations", image |-> image, attackTypes |-> attackTypes]
  /\ \E o \in runSimulations(image, attackTypes, store, signed) :
       out' = [fn |-> "runSimulations", outcome |-> o]
  /\ UNCHANGED sysVars

CallCalculatePSNR(original, modified) ==
  /\ out = NoOut
  /\ call' = [fn |-> "calculatePSNR", original |-> original, modified |-> modified]
  /\ \E p \in calculatePSNR(original, modified) :
       out' = [fn |-> "calculatePSNR", psnr |-> p.psnr, compared |-> p.compared]
  /\ UNCHANGED sysVars

AttackFiles == {AttackImageA, AttackImageB, NotAnImage}

PsnrFiles ==
  {AttackImageA, Png(1, 2, MatcherTampered), Jpeg(1, 2, dropAlpha(MatcherSamples)),
   AttackImageB, NotAnImage}

\* The lists of attack types a caller requests.
AttackRequests == SeqsUpTo(AttackTypes \cup {UnknownAttack}, MaxAttacks)

NextAttacks ==
  /\ out = NoOut
  /\ \/ \E i \in 1..Len(store), ts \in AttackRequests : CallRunSimulations(store[i], ts)
     \/ \E f \in AttackFiles : CallVerifyImage(f)
     \/ \E o \in PsnrFiles, m \in PsnrFiles : CallCalculatePSNR(o, m)

SpecAttacks == InitAttacks /\ [][NextAttacks]_vars

(***************************************************************************)
(* Properties of authenticate followed by verify (SpecRsa2048).            *)
(***************************************************************************)
AllRsa2048Large ==
  \A i \in 1..Len(store) :
    /\ store[i].signatureType = "RSA-2048"
    /\ Len(fromBase64(store[i].imageData).samples) >= 2048

\* C3: after any sequence of successful RSA-2048 authenticate operations on
\* images of at least 2048 samples, verifyImage on the unmodified stego
\* buffer of a stored record returns isValid = true with the id of that
\* record and integrityScore = 100, whatever other records are stored.
C3_StegoVerifiesAsOwnRecord ==
  (out.fn = "verifyImage" /\ AllRsa2048Large) =>
    \A i \in 1..Len(store) :
      call.file = fromBase64(store[i].imageData) =>
        /\ out.result.isValid
        /\ out.result.imageId = Some(store[i].id)
        /\ out.result.integrityScore = 100

C3_Witness ==
  /\ out.fn = "verifyImage"
  /\ AllRsa2048Large
  /\ Len(store) = 2
  /\ call.file = fromBase64(store[1].imageData)
  /\ store[1].embedPositions = store[2].embedPositions
  /\ out.checked = <<2, 1>>
  /\ out.result.isValid
  /\ out.result.imageId = Some(1)

(***************************************************************************)
(* Properties of tampered stego files (SpecTamper).                        *)
(***************************************************************************)
\* The content hash and the extracted signature the matcher computes for a
\* row from a sample buffer.
HashFor(row, pixelData) == computeImageHash(pixelData, row.embedPositions.items)
SignatureFor(row, pixelData) ==
  bitsToSignature(extractLSB(pixelData, row.embedPositions.items))

\* The buffer differs from the stego buffer of the row and is as long.
TamperedFor(row, pixelData) ==
  /\ Len(pixelData) = Len(fromBase64(row.imageData).samples)
  /\ pixelData # fromBase64(row.imageData).samples

\* C29: for a record authenticated with RSA-2048 over at least 2048 samples,
\* a buffer of the same length that differs from the record's stego buffer
\* in at least one bit gives, for that record, a different content hash or a
\* different extracted signature, and verifyImage does not match the record.
C29_TamperedNeverMatchesRecord ==
  (out.fn = "verifyImage" /\ AllRsa2048Large) =>
    \A i \in 1..Len(store) :
      LET pixelData == sharpRaw(call.file).value.data
          stego == fromBase64(store[i].imageData).samples
      IN  TamperedFor(store[i], pixelData) =>
            /\ \/ HashFor(store[i], pixelData) # HashFor(store[i], stego)
               \/ SignatureFor(store[i], pixelData) # SignatureFor(store[i], stego)
            /\ out.result.imageId # Some(store[i].id)

C29_Witness ==
  /\ out.fn = "verifyImage"
  /\ AllRsa2048Large
  /\ Len(store) = 2
  /\ call.file = Tamper(fromBase64(store[2].imageData), {<<2051, 0>>})
  /\ SignatureFor(store[2], call.file.samples)
       = SignatureFor(store[2], fromBase64(store[2].imageData).samples)
  /\ out.checked = <<2, 1>>
  /\ ~out.result.isValid

(***************************************************************************)
(* Properties of authentication under every scheme (SpecSchemes).          *)
(***************************************************************************)
\* The hex signature the matcher reads for a row from the row's own stego
\* file: bitsToSignature(extractLSB(pixelData, embedPositions)).
ExtractedFromOwnStego(row) ==
  bitsToSignature(extractLSB(sharpRaw(fromBase64(row.imageData)).value.data,
                             row.embedPositions.items))

\* The hex signatures that sign produced with the private key of the row.
SignedFor(row) == {e.sig : e \in {t \in signed : t.key = row.publicKey}}

\* C28: for an image of at least 2048 samples authenticated under RSA-2048,
\* RSA-4096 or ECDSA-256, the hex signature the matcher extracts from the
\* unmodified stego buffer at the stored positions is the hex signature
\* that sign produced.
C28_ExtractedSignatureIsSigned ==
  \A i \in 1..Len(store) : SignedFor(store[i]) = {ExtractedFromOwnStego(store[i])}

(***************************************************************************)
(* Properties of the verification matcher (SpecMatcher).                   *)
(***************************************************************************)
Rows == {store[i] : i \in 1..Len(store)}
RowOf(id) == CHOOSE r \in Rows : r.id = id

\* r comes before q in the iteration order of the store: it is more recent.
Before(r, q) == r.authenticationDate > q.authenticationDate

Decodable(file) == file.format = "png"

\* The signature read from the file at the row's positions verifies with
\* the row's key over the content hash of the file.
WouldVerify(r, file) ==
  /\ Decodable(file)
  /\ r.embedPositions.json = "array"
  /\ r.publicKey.pem = "PUBLIC KEY"
  /\ r.signatureType \in SupportedTypes
  /\ [data |-> computeImageHash(file.samples, r.embedPositions.items),
      sig |-> bitsToSignature(extractLSB(file.samples, r.embedPositions.items)),
      key |-> r.publicKey] \in signed

\* Processing the row raises an exception: in the extraction or inside verify.
Faulty(r) ==
  \/ r.embedPositions = NonIterable
  \/ /\ r.embedPositions.json = "array"
     /\ (r.publicKey = MalformedKey \/ r.signatureType \notin SupportedTypes)

IsInvalidResult(v) ==
  /\ v.isValid = FALSE
  /\ v.integrityScore = 0
  /\ v.imageId = Undefined
  /\ v.extractedSignature = Undefined
  /\ v.errorMessage.def
  /\ Len(v.errorMessage.v) > 0

\* C4: when verifyImage returns Valid, the record returned is the first one
\* in the store's iteration order (most recent first) whose extracted
\* signature verifies, and no record after it is checked.
C4_FirstSuccessWins ==
  (out.fn = "verifyImage" /\ out.result.isValid) =>
    LET m == RowOf(out.result.imageId.v)
    IN  /\ WouldVerify(m, call.file)
        /\ \A r \in Rows : WouldVerify(r, call.file) => ~Before(r, m)
        /\ \A r \in Rows :
             Before(m, r) => \A i \in 1..Len(out.checked) : out.checked[i] # r.id

C4_Witness ==
  /\ out.fn = "verifyImage"
  /\ out.result.isValid
  /\ \E r \in Rows :
       /\ Before(RowOf(out.result.imageId.v), r)
       /\ WouldVerify(r, call.file)
       /\ r.publicKey # RowOf(out.result.imageId.v).publicKey

C6_FaultIsolation ==
  (/\ out.fn = "verifyImage"
   /\ \E f, g \in Rows : Faulty(f) /\ Before(f, g) /\ WouldVerify(g, call.file))
    => /\ out.result.isValid
       /\ WouldVerify(RowOf(out.result.imageId.v), call.file)

C6_Witness ==
  /\ out.fn = "verifyImage"
  /\ \E f, g \in Rows :
       /\ f.embedPositions = NonIterable
       /\ Before(f, g)
       /\ WouldVerify(g, call.file)
       /\ out.result.isValid
       /\ out.result.imageId = Some(g.id)

\* C14: whenever verifyImage returns Valid, its integrityScore is exactly 100.
C14_ValidScoreIs100 ==
  (out.fn = "verifyImage" /\ out.result.isValid) => out.result.integrityScore = 100

C14_Witness ==
  /\ out.fn = "verifyImage"
  /\ out.result.isValid
  /\ out.result.integrityScore = 100
  /\ Len(out.result.extractedSignature.v) = 2
  /\ \E r \in Rows :
       /\ r.embedPositions = JsonArray(<<>>)
       /\ Before(r, RowOf(out.result.imageId.v))

(***************************************************************************)
(* Properties of the outcome of verifyImage (SpecOutcome).                 *)
(***************************************************************************)
StoreReadRejected == "storeRead" \in DOMAIN call

\* C21: verifyImage never throws and ends in one of two outcomes: Valid
\* (isValid true, with a record id and an extracted signature) or Invalid
\* (isValid false, with neither); when the image cannot be decoded or the
\* store cannot be read the outcome is Invalid with an errorMessage.
C21_TwoTerminalOutcomes ==
  out.fn = "verifyImage" =>
    /\ DOMAIN out.result = DOMAIN Invalid(<<>>)
    /\ out.result.isValid \in BOOLEAN
    /\ out.result.isValid =>
         out.result.imageId.def /\ out.result.extractedSignature.def
    /\ ~out.result.isValid =>
         ~out.result.imageId.def /\ ~out.result.extractedSignature.def
    /\ (sharpRaw(call.file).threw \/ StoreReadRejected) =>
         ~out.result.isValid /\ out.result.errorMessage.def

C21_Witness ==
  /\ out.fn = "verifyImage"
  /\ StoreReadRejected
  /\ call.file = Png(1, 2, MatcherSamples)
  /\ Len(store) = 1
  /\ store[1].publicKey = PublicKey(1, "rsa", 2048)
  /\ store[1].embedPositions = JsonArray(<<0, 1, 2, 3, 4, 5, 6, 7>>)
  /\ \E e \in signed : e.key = store[1].publicKey
                        /\ e.sig = bitsToSignature(extractLSB(MatcherSamples,
                                                             <<0, 1, 2, 3, 4, 5, 6, 7>>))
  /\ ~out.result.isValid
  /\ out.result.errorMessage.def

(***************************************************************************)
(* Properties of the attack simulator (SpecAttacks).                       *)
(***************************************************************************)
AttackResults ==
  IF out.fn = "runSimulations" /\ ~out.outcome.threw THEN out.outcome.value ELSE <<>>

\* The result is the one pushed by the catch clause: the attack failed.
IsFailedResult(r) == r.parameters = <<>>

\* The attack cannot be applied to the file: the type is unknown, the file
\* is no image, or scaling by 0.8 leaves no pixel.
AttackFails(file, attackType) ==
  \/ attackType \notin AttackTypes
  \/ file.format \notin {"png", "jpeg"}
  \/ /\ attackType = "scaling"
     /\ ((file.width * 8) \div 10 = 0 \/ (file.height * 8) \div 10 = 0)

\* The matcher reads a non-empty signature from the file at the positions
\* of some stored record.
MatcherReadsSignature(file) ==
  LET decoded == sharpRaw(file)
  IN  /\ ~decoded.threw
      /\ LET attempts == attemptSignatureExtraction(decoded.value.data,
                                                    decoded.value.info, store)
         IN  \E k \in 1..Len(attempts) : Len(attempts[k].signature) > 0

\* C12: in every AttackResult of an attack that was applied,
\* extractionSuccessful is true exactly when the matcher read a non-empty
\* signature from the attacked image, whether or not that signature validated.
C12_ExtractionSuccessfulIffSignatureRead ==
  \A i \in 1..Len(AttackResults) :
    ~IsFailedResult(AttackResults[i]) =>
      (AttackResults[i].extractionSuccessful
         <=> MatcherReadsSignature(fromBase64(AttackResults[i].afterImageData)))

\* C13: runSimulations returns one result per requested attack type, in the
\* order of the request; an attack that fails gives integrityLoss 100, psnr 0
\* and verificationPassed false, and the other attacks are still applied.
C13_PerAttackFaultIsolation ==
  out.fn = "runSimulations" =>
    /\ ~out.outcome.threw
    /\ Len(out.outcome.value) = Len(call.attackTypes)
    /\ \A i \in 1..Len(call.attackTypes) :
         LET r == out.outcome.value[i]
         IN  /\ r.attackType = call.attackTypes[i]
             /\ IF AttackFails(fromBase64(call.image.imageData), call.attackTypes[i])
                THEN /\ r.integrityLoss = 100
                     /\ r.psnr = Decibels(0)
                     /\ r.verificationPassed = FALSE
                ELSE ~IsFailedResult(r)

C13_Witness ==
  /\ out.fn = "runSimulations"
  /\ call.attackTypes = <<"scaling", "cropping">>
  /\ fromBase64(call.image.imageData) = AttackImageA
  /\ Len(AttackResults) = 2
  /\ IsFailedResult(AttackResults[1])
  /\ AttackResults[1].integrityLoss = 100
  /\ ~IsFailedResult(AttackResults[2])
  /\ AttackResults[2].verificationPassed

\* C18: a call of verifyImage or of runSimulations leaves every stored
\* record and the set of records as they were.
C18_RecordsNeverMutated ==
  [][call'.fn \in {"verifyImage", "runSimulations"} => store' = store]_vars

C18_Witness ==
  /\ out.fn = "runSimulations"
  /\ Len(store) = 2
  /\ Len(AttackResults) = 2
  /\ \A i \in 1..2 : AttackResults[i].afterImageData # call.image.imageData
  /\ \E i \in 1..2 : store[i] = call.image

\* C19: in every AttackResult of an attack that was applied, integrityLoss
\* is 100 minus the integrityScore of verifyImage on the attacked image.
C19_IntegrityLossIsComplement ==
  \A i \in 1..Len(AttackResults) :
    ~IsFailedResult(AttackResults[i]) =>
      AttackResults[i].integrityLoss =
        100 - verifyImage(fromBase64(AttackResults[i].afterImageData),
                          store, signed).result.integrityScore

C19_Witness ==
  /\ Len(AttackResults) = 2
  /\ ~IsFailedResult(AttackResults[1])
  /\ ~IsFailedResult(AttackResults[2])
  /\ AttackResults[1].integrityLoss = 0
  /\ AttackResults[1].verificationPassed
  /\ AttackResults[2].integrityLoss = 100

SameRawSamples(before, after) ==
  /\ before.format \in {"png", "jpeg"}
  /\ after.format \in {"png", "jpeg"}
  /\ before.width = after.width
  /\ before.height = after.height
  /\ before.samples = after.samples

\* C20: calculatePSNR returns exactly 100 when the two sample buffers it
\* compares are identical; so does runSimulations for an attacked image
\* with the size and the samples of the original.
C20_PsnrOfIdenticalBuffersIs100 ==
  /\ (/\ out.fn = "calculatePSNR"
      /\ out.compared # <<>>
      /\ out.compared[1] = out.compared[2]) => out.psnr = Decibels(100)
  /\ \A i \in 1..Len(AttackResults) :
       (/\ ~IsFailedResult(AttackResults[i])
        /\ SameRawSamples(fromBase64(AttackResults[i].beforeImageData),
                          fromBase64(AttackResults[i].afterImageData)))
         => AttackResults[i].psnr = Decibels(100)

C20_Witness ==
  /\ out.fn = "calculatePSNR"
  /\ call.original = AttackImageB
  /\ call.modified = AttackImageB
  /\ out.compared[1] = out.compared[2]
  /\ Len(out.compared[1]) = 16
  /\ out.psnr = Decibels(100)

(***************************************************************************)
(* Properties of CryptographyService (SpecCrypto).                         *)
(***************************************************************************)
VerifyFaults ==
  \/ call.signatureType \notin SupportedTypes
  \/ call.key.pem # "PUBLIC KEY"

\* C7: verify never throws; for every payload, signature, key and scheme an
\* internal fault (unknown scheme, malformed key) becomes the result false.
C7_VerifyNeverThrows ==
  out.fn = "verify" =>
    /\ ~out.outcome.threw
    /\ VerifyFaults => out.outcome.value = FALSE

C7_Witness ==
  /\ out.fn = "verify"
  /\ call.signatureType = UnknownType
  /\ [data |-> call.data, sig |-> call.signature, key |-> call.key] \in signed
  /\ out.outcome = Return(FALSE)

NamesUnsupportedType(outcome, t) ==
  /\ outcome.threw
  /\ \E i \in 1..Len(outcome.error) : outcome.error[i] = t

\* C8 as stated: an unknown scheme passed to generateKeyPair, sign or verify
\* is surfaced to the caller as an error that names the unsupported scheme.
C8_UnknownTypeSurfacedByAll ==
  (/\ out.fn \in {"generateKeyPair", "sign", "verify"}
   /\ call.signatureType \notin SupportedTypes)
    => NamesUnsupportedType(out.outcome, call.signatureType)

\* C8 amended: generateKeyPair and sign surface an unknown scheme as an
\* error naming it; verify returns false for it and throws nothing.
C8_UnknownTypeSurfacedBySignAndGenerate ==
  /\ (/\ out.fn \in {"generateKeyPair", "sign"}
      /\ call.signatureType \notin SupportedTypes)
       => NamesUnsupportedType(out.outcome, call.signatureType)
  /\ (/\ out.fn = "verify"
      /\ call.signatureType \notin SupportedTypes)
       => out.outcome = Return(FALSE)

C8_Witness ==
  /\ out.fn = "sign"
  /\ call.signatureType = UnknownType
  /\ call.key.pem = "PRIVATE KEY"
  /\ signed # {}
  /\ out.outcome.threw

\* C15: for each supported scheme and every payload, the signature that sign
\* returns for the private key of a pair generateKeyPair produced for the
\* scheme verifies with the public key of the pair: verify returns true.
C15_SignThenVerify ==
  /\ (out.fn = "sign" /\ call.signatureType \in SupportedTypes) =>
       \A kp \in PairsOfScheme(call.signatureType) :
         call.key = kp.privateKey =>
           /\ ~out.outcome.threw
           /\ verify(call.data, out.outcome.value, kp.publicKey,
                     call.signatureType, signed) = Return(TRUE)
  /\ (out.fn = "verify" /\ call.signatureType \in SupportedTypes) =>
       \A kp \in PairsOfScheme(call.signatureType) :
         (/\ call.key = kp.publicKey
          /\ [data |-> call.data, sig |-> call.signature, key |-> kp.publicKey]
               \in signed)
           => out.outcome = Return(TRUE)

C15_Witness ==
  /\ out.fn = "sign"
  /\ call.signatureType = "RSA-4096"
  /\ call.key = generateKeyPair("RSA-4096", 3).value.privateKey
  /\ ~out.outcome.threw
  /\ Len(out.outcome.value) = 1024
  /\ verify(call.data, out.outcome.value, PublicOf(call.key), "RSA-4096", signed)
       = Return(TRUE)

(***************************************************************************)
(* Properties of the hex/bit codec (SpecHex).                              *)
(***************************************************************************)
\* The value of the four bits from index i (from 1) on, the first the highest.
ChunkValue(bits, i) == 8 * bits[i] + 4 * bits[i + 1] + 2 * bits[i + 2] + bits[i + 3]

Lowercase(text) == \A k \in 1..Len(text) : \E v \in 1..16 : HexChars[v] = text[k]

\* C25: bitsToSignature groups the bits into chunks of four from the start
\* and drops a trailing chunk of fewer than four: a bit string of length n
\* gives floor(n / 4) hex digits, digit k (from 0) encoding bits 4k..4k+3.
C25_FourBitsPerDigitTailDropped ==
  out.fn = "bitsToSignature" =>
    /\ Len(out.signature) = Len(call.bits) \div 4
    /\ \A k \in 0..(Len(out.signature) - 1) :
         out.signature[k + 1] = HexChars[ChunkValue(call.bits, 4 * k + 1) + 1]

C25_Witness ==
  /\ out.fn = "bitsToSignature"
  /\ call.bits = <<1, 0, 1, 0, 0, 0, 1, 1, 1>>
  /\ out.signature = <<"a", "3">>

\* C26: signatureToBits maps each hex digit of the signature to its group of
\* four bits, in digit order: the bit string is exactly four times as long
\* as the hex signature.
C26_FourBitsPerHexDigit ==
  out.fn = "signatureToBits" =>
    /\ Len(out.bits) = 4 * Len(call.signature)
    /\ \A i \in 1..Len(out.bits) : out.bits[i] \in {0, 1}
    /\ \A k \in 0..(Len(call.signature) - 1) :
         ChunkValue(out.bits, 4 * k + 1) = parseInt16(call.signature[k + 1])

C26_Witness ==
  /\ out.fn = "signatureToBits"
  /\ call.signature = <<"1", "c">>
  /\ out.bits = <<0, 0, 0, 1, 1, 1, 0, 0>>

\* C27: for every lowercase hex string h, bitsToSignature(signatureToBits(h))
\* is h, digits with leading zero bits included.
C27_HexRoundTrip ==
  (out.fn = "signatureToBits" /\ Lowercase(call.signature)) =>
    out.back = call.signature

C27_Witness ==
  /\ out.fn = "signatureToBits"
  /\ call.signature = <<"0", "2">>
  /\ out.bits = <<0, 0, 0, 0, 0, 0, 1, 0>>
  /\ out.back = <<"0", "2">>

(***************************************************************************)
(* Properties of the LSB codec (SpecCodec).                                *)
(***************************************************************************)
Distinct(ps) == \A i, j \in 1..Len(ps) : i # j => ps[i] # ps[j]
InRange(ps, n) == \A i \in 1..Len(ps) : ps[i] < n
Truncation == Min(Len(call.bits), Len(call.positions))

Recovers ==
  /\ Len(out.extracted) >= Truncation
  /\ \A i \in 1..Truncation : out.extracted[i] = call.bits[i]

\* C1 as stated: for every buffer, bit string and position sequence, extracting
\* from the embedded buffer at the same positions gives back the bit string
\* truncated to min(len(bits), len(positions)).
C1_RoundTripAnyPositions == out.fn = "codec" => Recovers

\* C1 amended: the round trip recovers the truncated bit string when the
\* positions are pairwise distinct and all lie inside the buffer.
C1_RoundTripDistinctInRange ==
  (/\ out.fn = "codec"
   /\ Distinct(call.positions)
   /\ InRange(call.positions, Len(call.buf))) => Recovers

C1_Witness ==
  /\ out.fn = "codec"
  /\ Distinct(call.positions)
  /\ InRange(call.positions, Len(call.buf))
  /\ Len(call.positions) = 2
  /\ Len(call.bits) = 3
  /\ call.bits[1] # call.bits[2]
  /\ \A i \in 1..2 : call.buf[call.positions[i] + 1] % 2 # call.bits[i]
  /\ out.extracted = SubSeq(call.bits, 1, 2)

\* C2: the content hash of the embedded buffer equals the content hash of the
\* clean buffer, for every buffer, bit string and position sequence.
C2_HashInvariantToEmbedding == out.fn = "codec" => out.hashStego = out.hashClean

C2_Witness ==
  /\ out.fn = "codec"
  /\ out.stego # call.buf
  /\ Len(call.bits) >= 2
  /\ out.hashStego = out.hashClean

\* The offsets embedLSB may write: positions[i] for i < min(len(bits), len(positions)).
WrittenOffsets == {call.positions[i] : i \in 1..Truncation}

\* C22: embedLSB returns a buffer of the length of its input in which only
\* the least significant bit of the bytes at positions[i], i < min(len(bits),
\* len(positions)), may differ from the input: the bytes at other offsets,
\* among them the positions beyond the bit string, and the upper seven bits
\* of every byte are those of the input, which the call leaves as it was.
C22_OnlyListedLSBsChange ==
  out.fn = "codec" =>
    /\ Len(out.stego) = Len(call.buf)
    /\ \A p \in 1..Len(call.buf) :
         /\ out.stego[p] \div 2 = call.buf[p] \div 2
         /\ (p - 1) \notin WrittenOffsets => out.stego[p] = call.buf[p]

C22_Witness ==
  /\ out.fn = "codec"
  /\ call.buf = <<1, 1, 254>>
  /\ call.bits = <<0>>
  /\ call.positions = <<1, 0, 2>>
  /\ out.stego = <<1, 0, 254>>

\* The index of the last write to the offset among the first n positions.
LastWrite(offset, n) ==
  CHOOSE i \in 1..n : /\ call.positions[i] = offset
                      /\ \A k \in (i + 1)..n : call.positions[k] # offset

\* C23: when the bit string is longer than the position sequence, embedLSB
\* raises no error and its result is fixed by the first len(positions) bits:
\* a byte at one of the positions carries the bit last written there, taken
\* from those bits, every other byte is the input byte, and the bits from
\* index len(positions) on have no effect.
C23_TrailingBitsDropped ==
  (out.fn = "codec" /\ Len(call.bits) > Len(call.positions)) =>
    /\ Len(out.stego) = Len(call.buf)
    /\ \A p \in 1..Len(call.buf) :
         IF \E i \in 1..Len(call.positions) : call.positions[i] = p - 1
         THEN out.stego[p] = 2 * (call.buf[p] \div 2)
                               + call.bits[LastWrite(p - 1, Len(call.positions))]
         ELSE out.stego[p] = call.buf[p]

C23_Witness ==
  /\ out.fn = "codec"
  /\ call.buf = <<1, 254>>
  /\ call.bits = <<0, 1, 0>>
  /\ call.positions = <<0, 1>>
  /\ out.stego = <<0, 255>>
  /\ out.extracted = <<0, 1>>

PositionsInside == SelectSeq(call.positions, LAMBDA pos : pos < Len(call.buf))

\* C11 as stated: extractLSB returns exactly len(positions) bits, for every
\* sample buffer and position sequence.
C11_OneBitPerPosition ==
  out.fn = "codec" => Len(out.extracted) = Len(call.positions)

\* C11 amended: extractLSB never fails and returns one bit per position that
\* lies inside the buffer, in order: the least significant bit of the sample
\* there.  It returns exactly len(positions) bits when, and only when, every
\* position lies inside the buffer.
C11_OneBitPerPositionInside ==
  out.fn = "codec" =>
    /\ Len(out.extracted) = Len(PositionsInside)
    /\ \A i \in 1..Len(PositionsInside) :
         out.extracted[i] = out.stego[PositionsInside[i] + 1] % 2
    /\ (Len(out.extracted) = Len(call.positions)) <=>
         InRange(call.positions, Len(call.buf))

C11_Witness ==
  /\ out.fn = "codec"
  /\ Len(call.positions) = 3
  /\ Len(call.buf) = 2
  /\ call.positions[1] = 1
  /\ call.positions[2] >= 2
  /\ call.positions[3] = 0
  /\ Len(out.extracted) = 2
  /\ out.extracted[1] # out.extracted[2]

(***************************************************************************)
(* Properties of generateEmbedPositions (SpecPositions).                   *)
(***************************************************************************)
StrictlyIncreasing(ps) == \A i \in 1..(Len(ps) - 1) : ps[i] < ps[i + 1]

\* C9: for every totalSamples >= 0 the positions returned are strictly
\* increasing (no two are equal).
C9_PositionsStrictlyIncreasing ==
  out.fn = "generateEmbedPositions" => StrictlyIncreasing(out.positions)

\* C24: for every totalSamples >= 2048, generateEmbedPositions returns exactly
\* 2048 positions, the i-th (from 0) being i * floor(totalSamples / 2048); for
\* totalSamples = 40000 the step is 19.
C24_FullStrideAbove2048 ==
  (out.fn = "generateEmbedPositions" /\ call.totalSamples >= 2048) =>
    /\ Len(out.positions) = 2048
    /\ \A i \in 0..2047 : out.positions[i + 1] = i * (call.totalSamples \div 2048)
    /\ call.totalSamples = 40000 => out.positions[2] = 19

C24_Witness ==
  /\ out.fn = "generateEmbedPositions"
  /\ call.totalSamples = 4095
  /\ Len(out.positions) = 2048
  /\ out.positions[2] = 1
  /\ out.positions[2048] = 2047

\* C10: for every totalSamples >= 0 every position returned is below
\* totalSamples and there are at most 2048 of them.
C10_PositionsInRangeAndBounded ==
  out.fn = "generateEmbedPositions" =>
    /\ Len(out.positions) <= 2048
    /\ \A i \in 1..Len(out.positions) : out.positions[i] < call.totalSamples

C10_Witness ==
  /\ out.fn = "generateEmbedPositions"
  /\ call.totalSamples = 40000
  /\ Len(out.positions) = 2048
  /\ out.positions[2048] = 19 * 2047

(***************************************************************************)
(* Properties of the routes (SpecVerifyRoute, SpecAuthenticate).           *)
(***************************************************************************)
\* C16: every verification attempt that POST /api/verify handles (a request
\* that carries a file), whether its result is Valid or Invalid, appends one
\* row to verification_logs.
C16_EveryVerifyAttemptLogged ==
  [][(request'.op = "verify" /\ request'.file # NoFile /\ result'.status = 200)
       => Len(logs') = Len(logs) + 1]_vars

\* The authenticate request of the step fails in key generation or inside
\* authenticateImage (decoding, signing, embedding, re-encoding).
AuthenticateStepFails ==
  /\ request'.op = "authenticate"
  /\ request'.file # NoFile
  /\ LET keyPair == generateKeyPair(request'.signatureType, keysMade + 1)
     IN  \/ keyPair.threw
         \/ \A len \in SigHexLens(keyPair.value.privateKey) :
              authenticateBody(request'.file,
                               [artistName |-> "artist", artworkTitle |-> "title",
                                creationDate |-> 0,
                                signatureType |-> request'.signatureType],
                               keyPair.value, signed,
                               SigDigits(Cardinality(signed) + 1, len)).threw

\* C17: an authenticate request in which key generation, decoding, signing,
\* embedding or re-encoding fails creates no image record: the record store
\* (and its id counter) is unchanged by the request, which answers 500.
C17_FailedAuthenticateStoresNothing ==
  [][AuthenticateStepFails =>
       /\ store' = store
       /\ nextId' = nextId
       /\ result'.status = 500]_vars

C17_Witness ==
  /\ request.op = "authenticate"
  /\ request.file = NotAnImage
  /\ request.signatureType = "ECDSA-256"
  /\ result.status = 500
  /\ Len(store) = 1
  /\ nextId = 2
  /\ keysMade = 2

====
